---------------------------- MODULE Spec2Model ----------------------------
(***************************************************************************)
(* Model of src/bot.py: a Telegram ordering bot (aiogram 3).               *)
(*                                                                         *)
(* State: the per-user FSM state and data of MemoryStorage, the sqlite     *)
(* tables orders / order_items as seen through the single shared           *)
(* connection, the number of rows already made durable by conn.commit(),   *)
(* the handlers suspended at a network await, and the last                 *)
(* message rendered to each user.                                          *)
(*                                                                         *)
(* Scheduling: dp.start_polling(bot) handles every update as a task of its *)
(* own (handle_as_tasks defaults to True, no events isolation is given to  *)
(* the Dispatcher), so handlers of one user interleave at every await that *)
(* really suspends.  MemoryStorage never suspends; the awaits on bot /     *)
(* message / callback methods do.  A handler whose reads and writes of the *)
(* session all lie in one unsuspended stretch is one action; confirm_order *)
(* and process_admin_message write after their awaits and are split at     *)
(* them.                                                                   *)
(***************************************************************************)
EXTENDS Integers, Sequences, FiniteSets, TLC

(* ------------------------------ bounds -------------------------------- *)
\* largest pending quantity the model lets increase: reach (the code has none)
MaxQty == 2
\* rows the orders table may hold (the code has no limit)
MaxOrders == 2
\* handlers of one user that may be suspended at once
MaxTasks == 2
\* updates the bot receives in one run
MaxUpdates == 5
\* updates the bot receives in one run in which every user sends
MaxShared == 3
\* updates of one user in a run in which the users order side by side
MaxEach == 3

(* ------------------------- program constants -------------------------- *)
\* dict.get(key) of a missing key
None == -1
NoneStr == "None"

\* user ids the storage holds a session for
Users == {1, 2}
\* the users whose updates Spec delivers
Senders == {1}

\* ADMIN_IDS: two administrators are configured
ADMIN_IDS == <<1001, 1002>>

\* rows of the products table (id, category_id, name, price), db.setup
products ==
  << [id |-> 1, category_id |-> 1, name |-> "Americano 200", price |-> 200],
     [id |-> 2, category_id |-> 1, name |-> "Cappuccino 200", price |-> 230] >>

\* ids a "product:<id>" callback may carry: 3 is not a row of products
ProductRefs == {1, 2, 3}
\* ids a "category:<id>" callback may carry
CategoryRefs == {1}
\* the text after "payment:" in a callback
PaymentRefs == {"cash"}
\* callback data "time:asap" and "time:10:30", as split(":") sees them
TimeData == { <<"time", "asap">>, <<"time", "10", "30">> }
\* a text message that is no command and no menu button
Texts == {"text"}
\* the stars of a "rating:<n>" callback
Ratings == {5}

\* OrderStates, FeedbackStates, ContactAdminStates; NoneStr is "no state"
FsmStates ==
  { NoneStr, "choosing_category", "choosing_product", "adding_to_cart",
    "viewing_cart", "payment_method", "pickup_time", "confirming_order",
    "waiting_for_text", "waiting_for_rating", "waiting_for_message" }

VARIABLES
  fsm,          \* [Users -> FsmStates]: MemoryStorage state of each user
  data,         \* [Users -> record]: MemoryStorage data of each user
  reply,        \* [Users -> record]: the last update and its rendering
  inflight,     \* [Users -> Seq(record)]: handlers suspended at an await
  orders,       \* rows of table orders, as the connection sees them
  order_items,  \* rows of table order_items, as the connection sees them
  durable,      \* [orders, items]: rows committed by conn.commit()
  commit_log,   \* history: the cart handed to create_order, per orders row
  updates,      \* [Users -> Nat]: updates received from each user
  catalog       \* rows of table products, as the connection sees them

vars ==
  << fsm, data, reply, inflight, orders, order_items, durable, commit_log,
     updates, catalog >>
session == << fsm, data, reply, inflight >>
database == << orders, order_items, durable, commit_log >>

\* the data of a user after state.clear(): every key is missing
EmptyData ==
  [ current_category_id |-> None, current_product_id |-> None,
    current_product_name |-> NoneStr, current_product_price |-> None,
    current_quantity |-> None, cart |-> << >>,
    payment_method |-> NoneStr, pickup_time |-> NoneStr,
    feedback_text |-> NoneStr ]

\* the outcome of the update handled last: the update (event), the message
\* rendered for it ("pending": the handler is suspended before rendering,
\* "raised": an exception ended it before rendering, "none": no update
\* yet) and the total the message shows
Out(event, msg, total) == [event |-> event, msg |-> msg, total |-> total]

(* ----------------------------- catalog -------------------------------- *)
\* variant of get_product_by_id that finds a row for every id
any_product(product_id) ==
  [id |-> product_id, category_id |-> None, name |-> NoneStr, price |-> None]

\* db.get_product_by_id: the row, or None
get_product_by_id(product_id) ==
  IF \E i \in 1..Len(catalog) : catalog[i].id = product_id
  THEN catalog[CHOOSE i \in 1..Len(catalog) : catalog[i].id = product_id]
  ELSE [id |-> None, category_id |-> None, name |-> NoneStr, price |-> None]

(* ------------------------------- cart --------------------------------- *)
\* sum(item["price"] * item["quantity"] for item in cart), left to right
RECURSIVE SumFrom(_, _)
SumFrom(cart, i) ==
  IF i > Len(cart) THEN 0
  ELSE cart[i].price * cart[i].quantity + SumFrom(cart, i + 1)

\* variant of cart_total that forgets the quantities; the total properties
\* below fail under it
RECURSIVE PricesFrom(_, _)
PricesFrom(cart, i) ==
  IF i > Len(cart) THEN 0 ELSE cart[i].price + PricesFrom(cart, i + 1)

SumOfPrices(cart) == PricesFrom(cart, 1)

cart_total(cart) == SumFrom(cart, 1)

\* None * int raises TypeError: the sum exists when every price is a number
Priceable(cart) == \A i \in 1..Len(cart) : cart[i].price # None

\* the loop of add_to_cart: the first line whose product_id is the current one
FirstLine(cart, product_id) ==
  IF \E i \in 1..Len(cart) : cart[i].product_id = product_id
  THEN CHOOSE i \in 1..Len(cart) :
         /\ cart[i].product_id = product_id
         /\ \A j \in 1..(i - 1) : cart[j].product_id # product_id
  ELSE 0

\* variant of Upsert without the search loop: every add appends a line
AlwaysAppend(cart, product_id, name, price, quantity) ==
  Append(cart, [product_id |-> product_id, name |-> name,
                price |-> price, quantity |-> quantity])

\* add_to_cart's change of the cart
Upsert(cart, product_id, name, price, quantity) ==
  LET i == FirstLine(cart, product_id) IN
  IF i > 0
  THEN [cart EXCEPT ![i].quantity = quantity]
  ELSE Append(cart, [product_id |-> product_id, name |-> name,
                     price |-> price, quantity |-> quantity])

\* variant of Without that drops the last line (cart.pop()), whatever its
\* product
WithoutLast(cart, product_id) ==
  IF cart = << >> THEN << >> ELSE SubSeq(cart, 1, Len(cart) - 1)

\* [item for item in cart if item["product_id"] != product_id]
RECURSIVE Without(_, _)
Without(cart, product_id) ==
  IF cart = << >> THEN << >>
  ELSE IF Head(cart).product_id = product_id
       THEN Without(Tail(cart), product_id)
       ELSE << Head(cart) >> \o Without(Tail(cart), product_id)

\* data.get("current_quantity", 1)
PendingQuantity(d) == IF d.current_quantity = None THEN 1 ELSE d.current_quantity

\* variant of NewQuantity without max(1, .)
Unclamped(current_quantity, change) == current_quantity + change

\* max(1, current_quantity + change)
NewQuantity(current_quantity, change) ==
  IF current_quantity + change < 1 THEN 1 ELSE current_quantity + change

\* state.clear(): no state, no data
ClearedFsm == NoneStr

(* ------------------------------ Init ---------------------------------- *)
Init ==
  /\ fsm = [u \in Users |-> NoneStr]
  /\ data = [u \in Users |-> EmptyData]
  /\ reply = [u \in Users |-> Out("none", "none", None)]
  /\ inflight = [u \in Users |-> << >>]
  /\ orders = << >>
  /\ order_items = << >>
  /\ durable = [orders |-> 0, items |-> 0]
  /\ catalog = products
  /\ commit_log = << >>
  /\ updates = [u \in Users |-> 0]

(* ------------------------- session handlers --------------------------- *)
\* the message a handler renders for the update it handles
Render(u, event, msg, total) ==
  reply' = [reply EXCEPT ![u] = Out(event, msg, total)]

\* show_categories: set_state(choosing_category), render the categories
show_categories(u, event) ==
  /\ fsm' = [fsm EXCEPT ![u] = "choosing_category"]
  /\ Render(u, event, "categories", None)
  /\ UNCHANGED << data, inflight, database >>

\* show_products: remember the category, set_state(choosing_product)
show_products(u, event, category_id) ==
  /\ data' = [data EXCEPT ![u].current_category_id = category_id]
  /\ fsm' = [fsm EXCEPT ![u] = "choosing_product"]
  /\ Render(u, event, "products", None)
  /\ UNCHANGED << inflight, database >>

\* show_product_details: unknown id -> "product not found" and return;
\* else snapshot id, name, price, quantity 1 and set_state(adding_to_cart)
show_product_details(u, product_id) ==
  LET product == get_product_by_id(product_id) IN
  IF product.id = None
  THEN /\ Render(u, "product", "product_not_found", None)
       /\ UNCHANGED << fsm, data, inflight, database >>
  ELSE /\ data' = [data EXCEPT ![u].current_product_id = product.id,
                               ![u].current_product_name = product.name,
                               ![u].current_product_price = product.price,
                               ![u].current_quantity = 1]
       /\ fsm' = [fsm EXCEPT ![u] = "adding_to_cart"]
       /\ Render(u, "product", "product", None)
       /\ UNCHANGED << inflight, database >>

\* update_product_quantity: current_quantity = max(1, current + change)
update_product_quantity(u, event, change) ==
  /\ PendingQuantity(data[u]) + change <= MaxQty
  /\ data' = [data EXCEPT ![u].current_quantity =
                NewQuantity(PendingQuantity(data[u]), change)]
  /\ Render(u, event, "quantity", None)
  /\ UNCHANGED << fsm, inflight, database >>

\* add_to_cart: replace the quantity of the current product's line or append
add_to_cart(u) ==
  LET d == data[u] IN
  /\ data' = [data EXCEPT ![u].cart =
                Upsert(d.cart, d.current_product_id, d.current_product_name,
                       d.current_product_price, PendingQuantity(d))]
  /\ Render(u, "add_to_cart",
            IF FirstLine(d.cart, d.current_product_id) > 0
            THEN "quantity_updated" ELSE "added", None)
  /\ UNCHANGED << fsm, inflight, database >>

\* the callback data f"remove_from_cart:{product_id}"
RemoveData(product_id) == "remove_from_cart:" \o ToString(product_id)

\* remove_from_cart: drop the lines of the product the callback names
remove_from_cart(u, product_id) ==
  /\ data' = [data EXCEPT ![u].cart = Without(data[u].cart, product_id)]
  /\ Render(u, RemoveData(product_id), "removed", None)
  /\ UNCHANGED << fsm, inflight, database >>

\* show_cart: empty -> "cart is empty" and return; the sum of a line without
\* price raises before set_state; else set_state(viewing_cart), show total
show_cart(u, event) ==
  LET cart == data[u].cart IN
  IF cart = << >>
  THEN /\ Render(u, event, "cart_is_empty", None)
       /\ UNCHANGED << fsm, data, inflight, database >>
  ELSE IF ~Priceable(cart)
  THEN /\ Render(u, event, "raised", None)
       /\ UNCHANGED << fsm, data, inflight, database >>
  ELSE /\ fsm' = [fsm EXCEPT ![u] = "viewing_cart"]
       /\ Render(u, event, "cart", cart_total(cart))
       /\ UNCHANGED << data, inflight, database >>

\* variant of checkout without the test of the cart
checkout_unchecked(u) ==
  /\ fsm' = [fsm EXCEPT ![u] = "payment_method"]
  /\ Render(u, "checkout", "choose_payment", None)
  /\ UNCHANGED << data, inflight, database >>

\* checkout: empty cart -> "cart is empty" and return; else payment_method
checkout(u) ==
  IF data[u].cart = << >>
  THEN /\ Render(u, "checkout", "EmptyCart", None)
       /\ UNCHANGED << fsm, data, inflight, database >>
  ELSE /\ fsm' = [fsm EXCEPT ![u] = "payment_method"]
       /\ Render(u, "checkout", "choose_payment", None)
       /\ UNCHANGED << data, inflight, database >>

\* payment_methods.get(payment_method, payment_method)
PaymentLabel(m) ==
  CASE m = "cash" -> "Nalichnymi"
    [] m = "card" -> "Kartoj"
    [] m = "sbp" -> "SBP"
    [] OTHER -> m

\* select_payment_method: store the label, set_state(pickup_time)
select_payment_method(u, m) ==
  /\ data' = [data EXCEPT ![u].payment_method = PaymentLabel(m)]
  /\ fsm' = [fsm EXCEPT ![u] = "pickup_time"]
  /\ Render(u, "payment", "choose_time", None)
  /\ UNCHANGED << inflight, database >>

\* get_pickup_time_keyboard: the text of the button whose callback data is
\* cbdata, f"{hour:02d}:{minute:02d}" for a slot
ButtonText(cbdata) ==
  IF cbdata[2] = "asap" THEN "Kak mozhno skoree"
  ELSE cbdata[2] \o ":" \o cbdata[3]

\* callback.data.split(":")[1], "asap" replaced by its label
PickupTime(cbdata) ==
  IF cbdata[2] = "asap" THEN "Kak mozhno skoree" ELSE cbdata[2]

\* select_pickup_time: store the time, set_state(confirming_order), then
\* render the confirmation with the cart total (the sum may raise)
select_pickup_time(u, cbdata) ==
  /\ data' = [data EXCEPT ![u].pickup_time = PickupTime(cbdata)]
  /\ fsm' = [fsm EXCEPT ![u] = "confirming_order"]
  /\ IF Priceable(data[u].cart)
     THEN Render(u, "time", "confirm_screen", cart_total(data[u].cart))
     ELSE Render(u, "time", "raised", None)
  /\ UNCHANGED << inflight, database >>

\* variant of Clear on a storage that is not keyed by user
clear_all(u) ==
  /\ fsm' = [v \in Users |-> ClearedFsm]
  /\ data' = [v \in Users |-> EmptyData]

\* state.clear() of user u
Clear(u) ==
  /\ fsm' = [fsm EXCEPT ![u] = ClearedFsm]
  /\ data' = [data EXCEPT ![u] = EmptyData]

\* cancel_order: state.clear()
cancel_order(u) ==
  /\ Clear(u)
  /\ Render(u, "cancel_order", "cancelled", None)
  /\ UNCHANGED << inflight, database >>

\* process_clear_cart: update_data(cart=[])
process_clear_cart(u) ==
  /\ data' = [data EXCEPT ![u].cart = << >>]
  /\ Render(u, "clear_cart", "cart_cleared", None)
  /\ UNCHANGED << fsm, inflight, database >>

\* process_back_to_main: state.clear()
process_back_to_main(u) ==
  /\ Clear(u)
  /\ Render(u, "back_to_main", "main_menu", None)
  /\ UNCHANGED << inflight, database >>

process_back_to_menu(u) == show_categories(u, "back_to_menu")

process_back_to_categories(u) == show_categories(u, "back_to_categories")

\* process_back_to_products: "if category_id:" is false for a missing key
process_back_to_products(u) ==
  IF data[u].current_category_id # None /\ data[u].current_category_id # 0
  THEN show_products(u, "back_to_products", data[u].current_category_id)
  ELSE show_categories(u, "back_to_products")

process_back_to_cart(u) == show_cart(u, "back_to_cart")

\* process_back_to_payment: set_state(payment_method)
process_back_to_payment(u) ==
  /\ fsm' = [fsm EXCEPT ![u] = "payment_method"]
  /\ Render(u, "back_to_payment", "choose_payment", None)
  /\ UNCHANGED << data, inflight, database >>

process_category_selection(u, category_id) ==
  show_products(u, "category", category_id)

process_increase_quantity(u) == update_product_quantity(u, "increase", 1)

process_decrease_quantity(u) == update_product_quantity(u, "decrease", -1)

(* ---------------------------- persistence ----------------------------- *)
\* conn.commit(): every row the connection wrote becomes durable
conn_commit == [orders |-> Len(orders), items |-> Len(order_items)]

\* variant of OrderRow whose id counts the orders of the user
OrderRowPerUser(user_id, cart, payment_method, pickup_time) ==
  [ id |-> Cardinality({i \in 1..Len(orders) : orders[i].user_id = user_id}) + 1,
    user_id |-> user_id, status |-> "new",
    total_price |-> cart_total(cart), payment_method |-> payment_method,
    pickup_time |-> pickup_time ]

\* variant of OrderRow that is given callback.message.from_user.id, the id
\* of the bot, as user_id
OrderRowOfBot(user_id, cart, payment_method, pickup_time) ==
  [ id |-> Len(orders) + 1, user_id |-> 0, status |-> "new",
    total_price |-> cart_total(cart), payment_method |-> payment_method,
    pickup_time |-> pickup_time ]

\* the row create_order inserts into orders; id is cursor.lastrowid
OrderRow(user_id, cart, payment_method, pickup_time) ==
  [ id |-> Len(orders) + 1, user_id |-> user_id, status |-> "new",
    total_price |-> cart_total(cart), payment_method |-> payment_method,
    pickup_time |-> pickup_time ]

\* variant of ItemRow that takes the price from the products table
ItemRowLive(order_id, item) ==
  [ order_id |-> order_id, product_id |-> item.product_id,
    quantity |-> item.quantity,
    price |-> get_product_by_id(item.product_id).price ]

\* variant of ItemRow that stores every line with quantity 1
ItemRowOfOne(order_id, item) ==
  [ order_id |-> order_id, product_id |-> item.product_id,
    quantity |-> 1, price |-> item.price ]

\* the row create_order inserts into order_items for one cart item
ItemRow(order_id, item) ==
  [ order_id |-> order_id, product_id |-> item.product_id,
    quantity |-> item.quantity, price |-> item.price ]

\* statements create_order runs: INSERT orders, one INSERT per item, commit
Statements(cart) == Len(cart) + 2

\* variant of create_order that empties order_items before it inserts the
\* lines (a DELETE without WHERE)
create_order_deleting(user_id, cart, payment_method, pickup_time, done) ==
  LET order_id == Len(orders) + 1
      n == IF done - 1 < Len(cart) THEN done - 1 ELSE Len(cart)
  IN
  IF done = 0
  THEN UNCHANGED database
  ELSE /\ orders' = Append(orders,
                      [ id |-> order_id, user_id |-> user_id,
                        status |-> "new", total_price |-> cart_total(cart),
                        payment_method |-> payment_method,
                        pickup_time |-> pickup_time ])
       /\ order_items' = [i \in 1..n |->
                            [ order_id |-> order_id,
                              product_id |-> cart[i].product_id,
                              quantity |-> cart[i].quantity,
                              price |-> cart[i].price ]]
       /\ commit_log' = Append(commit_log, cart)
       /\ durable' = IF done = Len(cart) + 2
                     THEN [orders |-> Len(orders) + 1, items |-> n]
                     ELSE [durable EXCEPT !.items = 0]

\* create_order, its statements run until the database raises at statement
\* number done + 1 (done = Statements(cart): it returns).  No statement
\* is undone when one raises: the code has no rollback.
create_order(user_id, cart, payment_method, pickup_time, done) ==
  LET order_id == Len(orders) + 1
      n == IF done - 1 < Len(cart) THEN done - 1 ELSE Len(cart)
  IN
  IF done = 0
  THEN UNCHANGED database
  ELSE /\ orders' = Append(orders,
                      OrderRow(user_id, cart, payment_method, pickup_time))
       /\ order_items' = order_items \o
                           [i \in 1..n |-> ItemRow(order_id, cart[i])]
       /\ commit_log' = Append(commit_log, cart)
       /\ durable' = IF done = Statements(cart)
                     THEN [orders |-> Len(orders) + 1,
                           items |-> Len(order_items) + n]
                     ELSE durable

(* --------------------------- confirm_order ---------------------------- *)
RemoveAt(s, i) == [j \in 1..(Len(s) - 1) |-> IF j < i THEN s[j] ELSE s[j + 1]]

\* variant of AfterConfirm without state.clear(): only update_data(cart=[])
EmptyCartOnly(u) ==
  /\ data' = [data EXCEPT ![u].cart = << >>]
  /\ UNCHANGED fsm

\* the end of confirm_order: update_data(cart=[]) and state.clear()
AfterConfirm(u) ==
  /\ data' = [data EXCEPT ![u] = EmptyData]
  /\ fsm' = [fsm EXCEPT ![u] = ClearedFsm]

\* confirm_order up to its first await on the network: empty cart -> "cart
\* is empty" and return; else create_order and get_order_details, then
\* suspended in callback.message.edit_text.  An exception of the sum or of
\* create_order ends the handler.
confirm_order(u) ==
  LET d == data[u] IN
  IF d.cart = << >>
  THEN /\ Render(u, "confirm_order", "EmptyCart", None)
       /\ UNCHANGED << fsm, data, inflight, database >>
  ELSE IF ~Priceable(d.cart)
  THEN /\ Render(u, "confirm_order", "raised", None)
       /\ UNCHANGED << fsm, data, inflight, database >>
  ELSE /\ Len(orders) < MaxOrders
       /\ Len(inflight[u]) < MaxTasks
       /\ \E done \in 0..Statements(d.cart) :
            /\ create_order(u, d.cart, d.payment_method, d.pickup_time, done)
            /\ IF done = Statements(d.cart)
               THEN /\ inflight' = [inflight EXCEPT ![u] =
                          Append(@, [pc |-> "edit_text", admin |-> 0,
                                     order_id |-> Len(orders) + 1,
                                     cart |-> d.cart, failed |-> {}])]
                    /\ Render(u, "confirm_order", "pending", None)
               ELSE /\ Render(u, "confirm_order", "raised", None)
                    /\ UNCHANGED inflight
       /\ UNCHANGED << fsm, data >>

\* the await of edit_text returns: an exception ends the handler; else the
\* confirmation is on the screen and the first notification is awaited
\* (with no administrator the handler clears the session at once)
confirm_edit_text(u, t, ok) ==
  /\ t \in 1..Len(inflight[u])
  /\ inflight[u][t].pc = "edit_text"
  /\ IF ~ok
     THEN /\ inflight' = [inflight EXCEPT ![u] = RemoveAt(@, t)]
          /\ UNCHANGED << fsm, data, reply, database >>
     ELSE IF Len(ADMIN_IDS) = 0
     THEN /\ AfterConfirm(u)
          /\ inflight' = [inflight EXCEPT ![u] = RemoveAt(@, t)]
          /\ Render(u, "confirm_order", "main_menu", None)
          /\ UNCHANGED database
     ELSE /\ inflight' = [inflight EXCEPT ![u][t].pc = "send_message",
                                          ![u][t].admin = 1]
          /\ Render(u, "confirm_order", "order_accepted",
                    orders[inflight[u][t].order_id].total_price)
          /\ UNCHANGED << fsm, data, database >>

\* the notification loops go on to the next administrator; a delivery that
\* raised is caught and logged (failed: the administrators it is logged for)
NextAdmin(task, ok) ==
  [task EXCEPT !.admin = @ + 1,
               !.failed = IF ok THEN @ ELSE @ \cup {task.admin}]

\* variant of confirm_send_message without the try/except around the
\* delivery: the handler ends there
send_message_uncaught(u, t, ok) ==
  /\ t \in 1..Len(inflight[u])
  /\ inflight[u][t].pc = "send_message"
  /\ inflight' = [inflight EXCEPT ![u] = RemoveAt(@, t)]
  /\ UNCHANGED << fsm, data, reply, database >>

\* the await of bot.send_message to one administrator returns (an exception
\* is logged): the next administrator, or update_data(cart=[]), clear()
confirm_send_message(u, t, ok) ==
  /\ t \in 1..Len(inflight[u])
  /\ inflight[u][t].pc = "send_message"
  /\ IF inflight[u][t].admin < Len(ADMIN_IDS)
     THEN /\ inflight' = [inflight EXCEPT ![u][t] = NextAdmin(@, ok)]
          /\ UNCHANGED << fsm, data, reply, database >>
     ELSE /\ AfterConfirm(u)
          /\ inflight' = [inflight EXCEPT ![u] = RemoveAt(@, t)]
          /\ Render(u, "confirm_order", "main_menu", None)
          /\ UNCHANGED database

(* ------------------------ commands and messages ----------------------- *)
\* variant of cmd_start with set_state(None) in place of clear(): the data
\* stay
cmd_start_set_state(u) ==
  /\ durable' = conn_commit
  /\ fsm' = [fsm EXCEPT ![u] = NoneStr]
  /\ Render(u, "/start", "welcome", None)
  /\ UNCHANGED << data, inflight, orders, order_items, commit_log >>

\* cmd_start: register_user (which commits), state.clear()
cmd_start(u) ==
  /\ durable' = conn_commit
  /\ Clear(u)
  /\ Render(u, "/start", "welcome", None)
  /\ UNCHANGED << inflight, orders, order_items, commit_log >>

\* cmd_menu, menu_button
cmd_menu(u) == show_categories(u, "/menu")

\* cmd_cart, cart_button
cmd_cart(u) == show_cart(u, "/cart")

\* feedback_button: set_state(waiting_for_text)
feedback_button(u) ==
  /\ fsm' = [fsm EXCEPT ![u] = "waiting_for_text"]
  /\ Render(u, "feedback", "ask_feedback", None)
  /\ UNCHANGED << data, inflight, database >>

\* process_feedback_text: any other message while waiting_for_text
process_feedback_text(u, text) ==
  /\ fsm[u] = "waiting_for_text"
  /\ data' = [data EXCEPT ![u].feedback_text = text]
  /\ fsm' = [fsm EXCEPT ![u] = "waiting_for_rating"]
  /\ Render(u, "text", "ask_rating", None)
  /\ UNCHANGED << inflight, database >>

\* process_feedback_rating: add_review (which commits), state.clear()
process_feedback_rating(u, rating) ==
  /\ fsm[u] = "waiting_for_rating"
  /\ durable' = conn_commit
  /\ Clear(u)
  /\ Render(u, "rating", "thanks", None)
  /\ UNCHANGED << inflight, orders, order_items, commit_log >>

\* contact_admin_button: registered after process_feedback_text, which takes
\* the message while waiting_for_text
contact_admin_button(u) ==
  /\ fsm[u] # "waiting_for_text"
  /\ fsm' = [fsm EXCEPT ![u] = "waiting_for_message"]
  /\ Render(u, "contact", "ask_message", None)
  /\ UNCHANGED << data, inflight, database >>

\* process_admin_message up to its first await on the network: suspended in
\* bot.send_message to the first administrator (with no administrator it
\* clears the session at once)
process_admin_message(u, text) ==
  /\ fsm[u] = "waiting_for_message"
  /\ IF Len(ADMIN_IDS) = 0
     THEN /\ Clear(u)
          /\ Render(u, "text", "message_sent", None)
          /\ UNCHANGED inflight
     ELSE /\ Len(inflight[u]) < MaxTasks
          /\ inflight' = [inflight EXCEPT ![u] =
                Append(@, [pc |-> "admin_message", admin |-> 1,
                           order_id |-> 0, cart |-> << >>, failed |-> {}])]
          /\ Render(u, "text", "pending", None)
          /\ UNCHANGED << fsm, data >>
  /\ UNCHANGED database

\* the await of bot.send_message in process_admin_message returns (an
\* exception is logged): the next administrator, or state.clear()
admin_send_message(u, t, ok) ==
  /\ t \in 1..Len(inflight[u])
  /\ inflight[u][t].pc = "admin_message"
  /\ IF inflight[u][t].admin < Len(ADMIN_IDS)
     THEN /\ inflight' = [inflight EXCEPT ![u][t] = NextAdmin(@, ok)]
          /\ UNCHANGED << fsm, data, reply, database >>
     ELSE /\ Clear(u)
          /\ inflight' = [inflight EXCEPT ![u] = RemoveAt(@, t)]
          /\ Render(u, "text", "message_sent", None)
          /\ UNCHANGED database

(* --------------------------- specification ---------------------------- *)
RECURSIVE SumOver(_, _)
SumOver(f, S) ==
  IF S = {} THEN 0
  ELSE LET x == CHOOSE y \in S : TRUE IN f[x] + SumOver(f, S \ {x})

\* polling delivers one more update of user u, which starts a handler
Receive(u) ==
  /\ SumOver(updates, Users) < MaxUpdates
  /\ updates' = [updates EXCEPT ![u] = @ + 1]

\* a suspended handler goes on: no update is consumed
Resume == UNCHANGED updates

\* one update of user u is handled, or a suspended handler of u goes on
Handle(u) ==
  \/ Receive(u) /\ cmd_start(u)
  \/ Receive(u) /\ cmd_menu(u)
  \/ Receive(u) /\ cmd_cart(u)
  \/ Receive(u) /\ feedback_button(u)
  \/ Receive(u) /\ \E text \in Texts : process_feedback_text(u, text)
  \/ Receive(u) /\ \E rating \in Ratings : process_feedback_rating(u, rating)
  \/ Receive(u) /\ contact_admin_button(u)
  \/ Receive(u) /\ \E text \in Texts : process_admin_message(u, text)
  \/ Receive(u) /\ process_back_to_main(u)
  \/ Receive(u) /\ process_back_to_menu(u)
  \/ Receive(u) /\ process_back_to_categories(u)
  \/ Receive(u) /\ process_back_to_products(u)
  \/ Receive(u) /\ process_back_to_cart(u)
  \/ Receive(u) /\ process_back_to_payment(u)
  \/ Receive(u) /\ \E c \in CategoryRefs : process_category_selection(u, c)
  \/ Receive(u) /\ \E p \in ProductRefs : show_product_details(u, p)
  \/ Receive(u) /\ process_increase_quantity(u)
  \/ Receive(u) /\ process_decrease_quantity(u)
  \/ Receive(u) /\ add_to_cart(u)
  \/ Receive(u) /\ \E p \in ProductRefs : remove_from_cart(u, p)
  \/ Receive(u) /\ process_clear_cart(u)
  \/ Receive(u) /\ checkout(u)
  \/ Receive(u) /\ \E m \in PaymentRefs : select_payment_method(u, m)
  \/ Receive(u) /\ \E cbdata \in TimeData : select_pickup_time(u, cbdata)
  \/ Receive(u) /\ confirm_order(u)
  \/ Receive(u) /\ cancel_order(u)
  \/ Resume /\ \E t \in 1..MaxTasks, ok \in BOOLEAN : confirm_edit_text(u, t, ok)
  \/ Resume /\ \E t \in 1..MaxTasks, ok \in BOOLEAN : confirm_send_message(u, t, ok)
  \/ Resume /\ \E t \in 1..MaxTasks, ok \in BOOLEAN : admin_send_message(u, t, ok)

\* no handler writes the products table
Next == (\E u \in Senders : Handle(u)) /\ UNCHANGED catalog

Spec == Init /\ [][Next]_vars

(* ------------------- create_order on its own inputs ------------------- *)
\* a line add_to_cart can build from a row of products
Lines ==
  { [product_id |-> products[i].id, name |-> products[i].name,
     price |-> products[i].price, quantity |-> q] :
      i \in 1..Len(products), q \in 1..MaxQty }

\* the carts create_order is applied to: the empty list, and the lists of
\* one or two lines of different products
Carts ==
  {<< >>} \cup { <<a>> : a \in Lines } \cup
  { c \in { <<a, b>> : a \in Lines, b \in Lines } :
      c[1].product_id # c[2].product_id }

\* db.create_order(user_id, cart, payment_method, pickup_time) called
\* directly, whatever the session holds
call_create_order(u) ==
  /\ Len(orders) < MaxOrders
  /\ \E cart \in Carts : \E done \in 0..Statements(cart) :
       create_order(u, cart, PaymentLabel("cash"), PickupTime(<<"time", "asap">>),
                    done)
  /\ UNCHANGED << session, updates, catalog >>

CommitNext == \E u \in Users : call_create_order(u)

CommitSpec == Init /\ [][CommitNext]_vars

(* ------------- all users, and the products table edited -------------- *)
\* the rows of products that are edited, and what an edit makes of them
EditedRows == {1}
Renamed == "Renamed"
Repriced(price) == price + 50

\* the products table is edited from outside the bot (the bot has no
\* statement that writes it after setup): the name or the price of a row
\* that still is as seeded is changed
catalog_change(i, column) ==
  /\ i \in 1..Len(catalog)
  /\ catalog[i] = products[i]
  /\ \/ /\ column = "name"
        /\ catalog' = [catalog EXCEPT ![i].name = Renamed]
     \/ /\ column = "price"
        /\ catalog' = [catalog EXCEPT ![i].price = Repriced(@)]
  /\ UNCHANGED << session, database, updates >>

\* a suspended handler of u goes on
Continue(u) ==
  /\ Resume
  /\ \E t \in 1..MaxTasks, ok \in BOOLEAN :
       \/ confirm_edit_text(u, t, ok)
       \/ confirm_send_message(u, t, ok)
       \/ admin_send_message(u, t, ok)

\* updates of every user are handled, MaxShared of them in all, and the
\* products table is edited
WideNext ==
  \/ /\ SumOver(updates, Users) < MaxShared
     /\ \E u \in Users : Handle(u)
     /\ UNCHANGED catalog
  \/ /\ SumOver(updates, Users) >= MaxShared
     /\ \E u \in Users : Continue(u)
     /\ UNCHANGED catalog
  \/ \E i \in EditedRows, column \in {"name", "price"} :
       catalog_change(i, column)

WideSpec == Init /\ [][WideNext]_vars

(* ------------------- the users order side by side -------------------- *)
\* polling delivers one more update of user u, MaxEach per user
ReceiveEach(u) ==
  /\ updates[u] < MaxEach
  /\ updates' = [updates EXCEPT ![u] = @ + 1]

\* every user selects products, sets quantities, fills the cart and
\* confirms, and the suspended confirm handlers go on, in every interleaving
PairNext ==
  \/ \E u \in Users : /\ ReceiveEach(u)
                      /\ \E p \in ProductRefs : show_product_details(u, p)
                      /\ UNCHANGED catalog
  \/ \E u \in Users : /\ ReceiveEach(u)
                      /\ process_increase_quantity(u)
                      /\ UNCHANGED catalog
  \/ \E u \in Users : ReceiveEach(u) /\ add_to_cart(u) /\ UNCHANGED catalog
  \/ \E u \in Users : ReceiveEach(u) /\ confirm_order(u) /\ UNCHANGED catalog
  \/ \E u \in Users, t \in 1..MaxTasks, ok \in BOOLEAN :
       Resume /\ confirm_edit_text(u, t, ok) /\ UNCHANGED catalog
  \/ \E u \in Users, t \in 1..MaxTasks, ok \in BOOLEAN :
       Resume /\ confirm_send_message(u, t, ok) /\ UNCHANGED catalog

PairSpec == Init /\ [][PairNext]_vars

(* ============================== claims ================================ *)
\* sum of price x quantity over the lines of a cart, by structural recursion
RECURSIVE LineSum(_)
LineSum(cart) ==
  IF cart = << >> THEN 0
  ELSE Head(cart).price * Head(cart).quantity + LineSum(Tail(cart))

\* this step handles an update of user u, and the update is `event`
Handles(u, event) ==
  /\ updates'[u] # updates[u]
  /\ reply'[u].event = event

\* the update of u handled last was a confirm that committed data[u].cart and
\* is suspended before its post-processing; nothing of u was handled since
ConfirmedCartPending(u) ==
  /\ reply[u] = Out("confirm_order", "pending", None)
  /\ \E t \in 1..Len(inflight[u]) :
       /\ inflight[u][t].pc = "edit_text"
       /\ inflight[u][t].cart = data[u].cart

\* C1: a duplicate confirm for the same confirmed cart creates no Order
\* record and no order-line record.
C1_DuplicateConfirmCreatesNothing ==
  [][\A u \in Users :
       (ConfirmedCartPending(u) /\ Handles(u, "confirm_order"))
         => durable' = durable]_vars

\* the updates whose handler begins with state.get_data()
ReadsData ==
  { "increase", "decrease", "add_to_cart", "/cart",
    "back_to_cart", "back_to_products", "checkout", "time", "confirm_order",
    "rating" } \cup { RemoveData(p) : p \in ProductRefs }

\* a confirm_order of u is suspended between its get_data and its last write
ConfirmSuspended(u) ==
  \E t \in 1..Len(inflight[u]) :
    inflight[u][t].pc \in {"edit_text", "send_message"}

\* C2: no handler of a user's update starts reading the session while
\* another handler of the same user is suspended between its get_data and
\* its last write.
C2_OneHandlerAtATime ==
  [][\A u \in Users :
       (ConfirmSuspended(u) /\ updates'[u] # updates[u])
         => reply'[u].event \notin ReadsData]_vars

\* the durable rows of order_items that belong to order i
DurableLines(i) ==
  { k \in 1..durable.items : order_items[k].order_id = i }

\* C3: the durable store holds, for every commit attempt, either the Order
\* row with one line row per cart item or none of these rows, also after
\* later commits on the same connection.
C3_AllOrNothing ==
  /\ \A i \in 1..durable.orders :
       Cardinality(DurableLines(i)) = Len(commit_log[i])
  /\ \A k \in 1..durable.items : order_items[k].order_id <= durable.orders

\* the confirm of u handled in this step got its order id from create_order
CommitReturns(u) ==
  /\ Handles(u, "confirm_order")
  /\ Len(inflight'[u]) > Len(inflight[u])

\* C4: a commit of a non-empty cart that returns has created exactly one
\* Order row, one line row per cart line carrying that line's product id,
\* quantity and price, and a total equal to the sum of price x quantity
\* over the cart lines; all of them are durable.
C4_CommitCreatesOneOrder ==
  [][\A u \in Users : CommitReturns(u) =>
       LET cart == data[u].cart
           n == Len(orders)
           m == Len(order_items)
       IN /\ cart # << >>
          /\ Len(orders') = n + 1
          /\ SubSeq(orders', 1, n) = orders
          /\ orders'[n + 1].user_id = u
          /\ orders'[n + 1].total_price = LineSum(cart)
          /\ Len(order_items') = m + Len(cart)
          /\ SubSeq(order_items', 1, m) = order_items
          /\ \A i \in 1..Len(cart) :
               order_items'[m + i] =
                 [ order_id |-> orders'[n + 1].id,
                   product_id |-> cart[i].product_id,
                   quantity |-> cart[i].quantity,
                   price |-> cart[i].price ]
          /\ durable' = [orders |-> n + 1, items |-> m + Len(cart)]]_vars

\* a confirm has committed a cart of two lines
C4_Witness ==
  \E u \in Users : \E t \in 1..Len(inflight[u]) :
    /\ Len(inflight[u][t].cart) = 2
    /\ durable.orders >= inflight[u][t].order_id

\* C5: create_order applied to an empty cart creates no Order row and no
\* line row.
C5_EmptyCartCreatesNothing ==
  \A i \in 1..Len(orders) : commit_log[i] # << >>

\* C6: an update that has no row for the current state leaves the state
\* as it is: product selection in choosing_category, payment selection in
\* viewing_cart, pickup-time selection with no state, add_to_cart in
\* choosing_product.
C6_InvalidTransitionKeepsState ==
  [][\A u \in Users :
       \/ /\ fsm[u] = "choosing_category" /\ Handles(u, "product")
       \/ /\ fsm[u] = "viewing_cart" /\ Handles(u, "payment")
       \/ /\ fsm[u] = NoneStr /\ Handles(u, "time")
       \/ /\ fsm[u] = "choosing_product" /\ Handles(u, "add_to_cart")
       => (fsm'[u] = fsm[u] /\ data'[u] = data[u])]_vars

\* C7: the total shown in the cart view and on the confirmation screen,
\* and the total of every Order row, is the sum of price x quantity over
\* the lines of the cart it was taken from, and is not negative.
C7_TotalIsLineSum ==
  /\ \A u \in Users :
       reply[u].msg \in {"cart", "confirm_screen"} =>
         /\ reply[u].total = LineSum(data[u].cart)
         /\ reply[u].total >= 0
  /\ \A i \in 1..Len(orders) :
       /\ orders[i].total_price = LineSum(commit_log[i])
       /\ orders[i].total_price >= 0

\* the cart view shows the total of a cart of two lines
C7_Witness ==
  \E u \in Users :
    /\ reply[u].msg = "cart"
    /\ Len(data[u].cart) = 2
    /\ reply[u].total = 430

\* no two lines of the cart of u are of the same product
OneLinePerProduct(u) ==
  \A i, j \in 1..Len(data[u].cart) :
    i # j => data[u].cart[i].product_id # data[u].cart[j].product_id

\* what the add_to_cart handled in this step does to the cart of u
AddReplacesInPlace(u) ==
  LET c == data[u].cart
      c2 == data'[u].cart
      p == data[u].current_product_id
      q == IF data[u].current_quantity = None
           THEN 1 ELSE data[u].current_quantity
  IN IF \E i \in 1..Len(c) : c[i].product_id = p
     THEN /\ Len(c2) = Len(c)
          /\ \A i \in 1..Len(c) :
               c2[i] = IF c[i].product_id = p
                       THEN [c[i] EXCEPT !.quantity = q] ELSE c[i]
     ELSE /\ Len(c2) = Len(c) + 1
          /\ SubSeq(c2, 1, Len(c)) = c
          /\ c2[Len(c2)].product_id = p
          /\ c2[Len(c2)].quantity = q

\* C8: a cart holds at most one line per product id; adding a product that
\* is already in the cart keeps its one line at its position with the
\* quantity of the later add, and leaves every other line unchanged.
C8_OneLinePerProduct ==
  /\ [](\A u \in Users : OneLinePerProduct(u))
  /\ [][\A u \in Users : Handles(u, "add_to_cart") => AddReplacesInPlace(u)]_vars

\* a product already in a cart of two lines was added again
C8_Witness ==
  \E u \in Users :
    /\ reply[u] = Out("add_to_cart", "quantity_updated", None)
    /\ Len(data[u].cart) = 2
    /\ data[u].cart[2].product_id = data[u].current_product_id

\* the pending quantity of u, 1 when none is stored
Pending(u) ==
  IF data[u].current_quantity = None THEN 1 ELSE data[u].current_quantity

\* what the quantity update handled in this step does, change being +1 or -1
Adjusts(u, change) ==
  /\ data'[u].cart = data[u].cart
  /\ data'[u].current_quantity =
       IF Pending(u) + change >= 1 THEN Pending(u) + change ELSE 1

\* C9: the pending quantity is always at least 1, a decrease at 1 leaves it
\* at 1, also when none was stored yet, and no quantity update changes the
\* cart.
C9_PendingQuantityAtLeastOne ==
  /\ [](\A u \in Users : Pending(u) >= 1)
  /\ [][\A u \in Users :
          /\ Handles(u, "increase") => Adjusts(u, 1)
          /\ Handles(u, "decrease") => Adjusts(u, -1)]_vars

\* a decrease was handled with a line in the cart and left the quantity at 1
C9_Witness ==
  \E u \in Users :
    /\ reply[u].event = "decrease"
    /\ data[u].current_quantity = 1
    /\ data[u].cart # << >>
    /\ data[u].cart[1].quantity = 2

\* a confirm of u that committed its order ends in this step
ConfirmSucceeds(u) ==
  /\ Len(inflight'[u]) < Len(inflight[u])
  /\ reply'[u] = Out("confirm_order", "main_menu", None)

\* the cart of u is empty and its payment and pickup selections are gone
SelectionsCleared(u) ==
  /\ data'[u].cart = << >>
  /\ data'[u].payment_method = NoneStr
  /\ data'[u].pickup_time = NoneStr

C11_CancelKeepsCart ==
  [][\A u \in Users :
       (fsm[u] = "confirming_order" /\ Handles(u, "cancel_order")) =>
         /\ data'[u].cart = data[u].cart
         /\ data'[u].payment_method = NoneStr
         /\ data'[u].pickup_time = NoneStr
         /\ orders' = orders]_vars

\* the backward navigation updates
BackEvents ==
  { "back_to_main", "back_to_menu", "back_to_categories", "back_to_products",
    "back_to_cart", "back_to_payment" }

\* C12: a backward navigation update, handled in any state, leaves the cart
\* lines of the session as they were.
C12_BackKeepsCart ==
  [][\A u \in Users :
       (updates'[u] # updates[u] /\ reply'[u].event \in BackEvents)
         => data'[u].cart = data[u].cart]_vars

\* C13: when the create_order of a confirm raises, the state, cart, payment
\* method and pickup time of the session are as before, and the tables hold
\* no row of the failed attempt.
C13_FailedCommitLeavesNothing ==
  [][\A u \in Users :
       (Handles(u, "confirm_order") /\ reply'[u].msg = "raised") =>
         /\ fsm'[u] = fsm[u]
         /\ data'[u] = data[u]
         /\ orders' = orders
         /\ order_items' = order_items]_vars

\* C19: a checkout with an empty cart answers EmptyCart and changes neither
\* state nor cart; with at least one line it moves to payment_method and
\* leaves the cart unchanged.
C19_CheckoutNeedsLines ==
  [][\A u \in Users : Handles(u, "checkout") =>
       /\ data'[u] = data[u]
       /\ IF data[u].cart = << >>
          THEN fsm'[u] = fsm[u] /\ reply'[u].msg = "EmptyCart"
          ELSE fsm'[u] = "payment_method"]_vars

\* a checkout was refused in viewing_cart, after the cart was emptied
C19_Witness ==
  \E u \in Users :
    /\ reply[u] = Out("checkout", "EmptyCart", None)
    /\ fsm[u] = "viewing_cart"
    /\ data[u].cart = << >>

\* C20: selecting a product either makes a row of the catalog the current
\* product, or (the id is not in the catalog) answers "product not found"
\* and leaves state, current-product snapshot, pending quantity and cart
\* unchanged.
C20_UnknownProductChangesNothing ==
  [][\A u \in Users : Handles(u, "product") =>
       \/ /\ reply'[u].msg = "product_not_found"
          /\ fsm'[u] = fsm[u]
          /\ data'[u] = data[u]
       \/ /\ reply'[u].msg = "product"
          /\ \E i \in 1..Len(catalog) :
               data'[u].current_product_id = catalog[i].id]_vars

\* an unknown product was selected while product 1 was current and in the cart
C20_Witness ==
  \E u \in Users :
    /\ reply[u] = Out("product", "product_not_found", None)
    /\ data[u].current_product_id = 1
    /\ data[u].cart # << >>
    /\ fsm[u] = "adding_to_cart"

\* in this step the await of a notification of task t of user u returns
DeliveryReturns(u, t) ==
  /\ updates' = updates
  /\ t \in 1..Len(inflight[u])
  /\ inflight[u][t].pc = "send_message"
  /\ \/ inflight'[u] = RemoveAt(inflight[u], t)
     \/ /\ Len(inflight'[u]) = Len(inflight[u])
        /\ inflight'[u][t] # inflight[u][t]

\* C14: whichever deliveries to administrators fail, the next administrator
\* still gets its delivery attempt for the same order, the Order and its
\* lines stay as committed, the cart is cleared after the last attempt, and
\* the ordering user is shown nothing but the main menu at the end.
C14_DeliveryFailuresAreLocal ==
  [][\A u \in Users : \A t \in 1..MaxTasks : DeliveryReturns(u, t) =>
       LET task == inflight[u][t] IN
       /\ UNCHANGED database
       /\ IF task.admin < Len(ADMIN_IDS)
          THEN /\ Len(inflight'[u]) = Len(inflight[u])
               /\ inflight'[u][t].pc = "send_message"
               /\ inflight'[u][t].admin = task.admin + 1
               /\ inflight'[u][t].order_id = task.order_id
               /\ fsm'[u] = fsm[u] /\ data'[u] = data[u]
               /\ reply'[u] = reply[u]
          ELSE /\ inflight'[u] = RemoveAt(inflight[u], t)
               /\ data'[u].cart = << >>
               /\ reply'[u] = Out("confirm_order", "main_menu", None)]_vars

\* the delivery to the first administrator failed and the second is tried,
\* the order being durable with its line
C14_Witness ==
  \E u \in Users : \E t \in 1..Len(inflight[u]) :
    /\ inflight[u][t].pc = "send_message"
    /\ inflight[u][t].admin = 2
    /\ inflight[u][t].failed = {1}
    /\ durable.orders >= inflight[u][t].order_id
    /\ Cardinality(DurableLines(inflight[u][t].order_id)) =
         Len(inflight[u][t].cart)

\* a handler of user a runs in this step
Acts(a) == updates'[a] # updates[a] \/ inflight'[a] # inflight[a]

\* C15: a step of a handler of user a, in any interleaving with the
\* handlers of other users, leaves state, scratch data and cart of every
\* other user b unchanged.
C15_SessionsIsolated ==
  [][\A a, b \in Users :
       (a # b /\ Acts(a)) => (fsm'[b] = fsm[b] /\ data'[b] = data[b])]_vars

\* user 1 holds a cart while user 2 is in the feedback dialogue
C15_Witness ==
  /\ data[1].cart # << >>
  /\ data[2].cart = << >>
  /\ fsm[1] = "adding_to_cart"
  /\ fsm[2] = "waiting_for_text"

\* the lines of order i, in the order of their insertion
RECURSIVE LinesOf(_, _)
LinesOf(items, i) ==
  IF items = << >> THEN << >>
  ELSE IF Head(items).order_id = i
       THEN << Head(items) >> \o LinesOf(Tail(items), i)
       ELSE LinesOf(Tail(items), i)

\* every line of order i carries product, quantity and price of the cart
\* line it was inserted for
LinesAreSnapshot(i) ==
  LET rows == LinesOf(order_items, i)
      cart == commit_log[i]
  IN /\ Len(rows) <= Len(cart)
     /\ \A k \in 1..Len(rows) :
          /\ rows[k].product_id = cart[k].product_id
          /\ rows[k].quantity = cart[k].quantity
          /\ rows[k].price = cart[k].price

\* a line of a product that stays in the cart of u keeps its name and price
LinesKeepSnapshot(u) ==
  \A i \in 1..Len(data[u].cart) : \A j \in 1..Len(data'[u].cart) :
    data'[u].cart[j].product_id = data[u].cart[i].product_id =>
      /\ data'[u].cart[j].name = data[u].cart[i].name
      /\ data'[u].cart[j].price = data[u].cart[i].price

\* C16: an edit of the products table changes no cart; a line keeps the
\* name and price it was added with as long as it is in the cart; the total
\* and the line prices of an order are those of the cart lines, not those
\* of the products table.
C16_CartKeepsSnapshot ==
  /\ [](\A i \in 1..Len(orders) :
          /\ orders[i].total_price = LineSum(commit_log[i])
          /\ LinesAreSnapshot(i))
  /\ [][/\ catalog' # catalog => data' = data
        /\ \A u \in Users : LinesKeepSnapshot(u)]_vars

\* an order is durable whose line of product 1 has the price the product
\* had before the products table was edited
C16_Witness ==
  /\ catalog[1].price # products[1].price
  /\ \E k \in 1..durable.items :
       /\ order_items[k].product_id = 1
       /\ order_items[k].price = products[1].price
       /\ orders[order_items[k].order_id].total_price =
            products[1].price * order_items[k].quantity

\* C17: the rows of tables orders and order_items, once inserted, are never
\* changed or removed, and no later step adds a line to an order that
\* exists.
C17_OrdersAreFrozen ==
  [][/\ Len(orders') >= Len(orders)
     /\ SubSeq(orders', 1, Len(orders)) = orders
     /\ Len(order_items') >= Len(order_items)
     /\ SubSeq(order_items', 1, Len(order_items)) = order_items
     /\ \A k \in (Len(order_items) + 1)..Len(order_items') :
          order_items'[k].order_id > Len(orders)
     /\ durable'.orders >= durable.orders
     /\ durable'.items >= durable.items]_vars

\* an order is durable, its confirm has ended and cleared the session, and
\* its user has put a line in the cart again
C17_Witness ==
  /\ durable.orders = 1
  /\ durable.items = 1
  /\ order_items[1].product_id = 1
  /\ inflight[orders[1].user_id] = << >>
  /\ reply[orders[1].user_id].event = "add_to_cart"
  /\ data[orders[1].user_id].cart # << >>

\* C18: the ids of the orders rows are different and grow with every
\* insertion, whichever users the orders are of; the id create_order returns
\* is the id of the row it inserted.
C18_OrderIdsIncrease ==
  /\ \A i, j \in 1..Len(orders) : i < j => orders[i].id < orders[j].id
  /\ \A u \in Users : \A t \in 1..Len(inflight[u]) :
       inflight[u][t].order_id # 0 =>
         orders[inflight[u][t].order_id].id = inflight[u][t].order_id

\* two orders of different users are durable
C18_Witness ==
  /\ durable.orders = 2
  /\ orders[1].user_id # orders[2].user_id
  /\ orders[1].id < orders[2].id

\* C21: an update that opens the cart, handled in any state, moves the
\* session to viewing_cart and leaves the cart unchanged, whether the cart is
\* empty or not.
C21_OpenCartShowsCart ==
  [][\A u \in Users : Handles(u, "/cart") =>
       /\ fsm'[u] = "viewing_cart"
       /\ data'[u].cart = data[u].cart]_vars

\* C22: the start command, handled in any state, leaves the session with no
\* state, an empty cart and no current category, product, pending quantity,
\* payment method or pickup time.
C22_ResetClearsSession ==
  [][\A u \in Users : Handles(u, "/start") =>
       /\ fsm'[u] = NoneStr
       /\ data'[u].cart = << >>
       /\ data'[u].current_category_id = None
       /\ data'[u].current_product_id = None
       /\ data'[u].current_product_name = NoneStr
       /\ data'[u].current_product_price = None
       /\ data'[u].current_quantity = None
       /\ data'[u].payment_method = NoneStr
       /\ data'[u].pickup_time = NoneStr]_vars

\* the start command was handled while a confirm of a cart was suspended
C22_Witness ==
  \E u \in Users :
    /\ reply[u].event = "/start"
    /\ fsm[u] = NoneStr
    /\ data[u] = EmptyData
    /\ \E t \in 1..Len(inflight[u]) : inflight[u][t].cart # << >>

\* the texts of the buttons of the pickup-time keyboard
OfferedTimes == { ButtonText(cbdata) : cbdata \in TimeData }

\* C23: the pickup time stored by a pickup-time selection, and the pickup
\* time of every Order, is the text of a button of the pickup-time keyboard:
\* the HH:MM of a slot or the as-soon-as-possible label.
C23_PickupTimeIsSlot ==
  /\ \A u \in Users :
       data[u].pickup_time # NoneStr => data[u].pickup_time \in OfferedTimes
  /\ \A i \in 1..Len(orders) :
       orders[i].pickup_time # NoneStr => orders[i].pickup_time \in OfferedTimes

\* C24: once create_order has returned for a confirm, the cart is emptied
\* when that confirm handler ends, however it ends, and no other update of
\* the user is handled while the cart still holds the committed lines.
C24_CartClearedAfterCommit ==
  [][\A u \in Users : \A t \in 1..Len(inflight[u]) :
       inflight[u][t].order_id # 0 =>
         /\ inflight'[u] = RemoveAt(inflight[u], t) => data'[u].cart = << >>
         /\ updates'[u] # updates[u] =>
              data[u].cart # inflight[u][t].cart]_vars

\* the positions of the lines of cart c that are not of product p
Kept(c, p) == { i \in 1..Len(c) : c[i].product_id # p }

\* c2 is c without the lines of product p, the other lines in their order
RemovesExactly(c, c2, p) ==
  /\ Len(c2) = Cardinality(Kept(c, p))
  /\ \A i \in Kept(c, p) :
       c2[Cardinality({ k \in Kept(c, p) : k <= i })] = c[i]

C27_OrderNeedsCheckout ==
  [][durable'.orders > durable.orders =>
       /\ \E u \in Users :
            Handles(u, "confirm_order") /\ fsm[u] = "confirming_order"
       /\ orders'[durable'.orders].payment_method # NoneStr
       /\ orders'[durable'.orders].pickup_time # NoneStr]_vars

\* C28: every line of every cart has the id, name and price of a row of
\* the products table that was loaded by a product selection, and a
\* quantity of at least 1.
C28_LinesAreComplete ==
  \A u \in Users : \A i \in 1..Len(data[u].cart) :
    LET line == data[u].cart[i] IN
    /\ \E k \in 1..Len(products) : products[k].id = line.product_id
    /\ line.name # NoneStr
    /\ line.price # None
    /\ line.quantity >= 1

\* the updates of the review and contact-administrator dialogues
SideEvents == { "feedback", "text", "rating", "contact" }

\* a suspended process_admin_message of u goes on in this step
AdminMessageGoesOn(u) ==
  /\ updates' = updates
  /\ \E t \in 1..Len(inflight[u]) :
       /\ inflight[u][t].pc = "admin_message"
       /\ \/ inflight'[u] = RemoveAt(inflight[u], t)
          \/ /\ Len(inflight'[u]) = Len(inflight[u])
             /\ inflight'[u][t] # inflight[u][t]

\* C29: no step of the review dialogue (button, text, rating) or of the
\* contact-administrator dialogue (button, message, its deliveries) changes
\* the cart lines of the session.
C29_SideChannelsKeepCart ==
  [][\A u \in Users :
       \/ updates'[u] # updates[u] /\ reply'[u].event \in SideEvents
       \/ AdminMessageGoesOn(u)
       => data'[u].cart = data[u].cart]_vars

\* order i is the order of user u for cart: user id, total, and one line per
\* cart line with the line's product, quantity and price and the id of
\* order i
OrderIsOf(i, u, cart) ==
  LET rows == LinesOf(order_items, orders[i].id) IN
  /\ orders[i].user_id = u
  /\ orders[i].total_price = LineSum(cart)
  /\ Len(rows) = Len(cart)
  /\ \A k \in 1..Len(cart) :
       /\ rows[k].product_id = cart[k].product_id
       /\ rows[k].quantity = cart[k].quantity
       /\ rows[k].price = cart[k].price

\* C25: while confirms of different users are suspended and resumed in any
\* interleaving, the Order of every confirm has the user id, the total and
\* the lines of the cart of its own user, every line with the id of that
\* Order, and every order row is of one cart only.
C25_ConcurrentConfirms ==
  /\ \A u \in Users : \A t \in 1..Len(inflight[u]) :
       inflight[u][t].order_id # 0 =>
         OrderIsOf(inflight[u][t].order_id, u, inflight[u][t].cart)
  /\ \A i \in 1..Len(orders) :
       /\ orders[i].total_price = LineSum(commit_log[i])
       /\ Len(LinesOf(order_items, orders[i].id)) <= Len(commit_log[i])

\* confirms of both users are suspended at once, their orders durable, for
\* carts of different products
C25_Witness ==
  /\ durable.orders = 2
  /\ \E t1 \in 1..Len(inflight[1]), t2 \in 1..Len(inflight[2]) :
       /\ inflight[1][t1].pc = "send_message"
       /\ inflight[2][t2].pc = "edit_text"
       /\ inflight[1][t1].order_id > inflight[2][t2].order_id
       /\ inflight[1][t1].cart[1].product_id # inflight[2][t2].cart[1].product_id

=============================================================================
